---- MODULE Spec2Model ----
(***************************************************************************)
(* Model of the counter application in src/main.rs: a Store holding an     *)
(* i32 counter, a Dispatcher that mutates it under a Mutex, and a View     *)
(* whose run loop reads the counter, renders it, polls the input source    *)
(* for an action key, dispatches, and polls again for the quit key.        *)
(***************************************************************************)
EXTENDS Integers, Sequences, FiniteSets, TLC

(* ---------- bounds of the model ---------- *)
MaxEvents == 3
MaxReq == 8
NumThreads == 3

(* ---------- program constants ---------- *)
I32Max == 2147483647
I32Min == -I32Max - 1

VARIABLES
  count,      \* Store.count
  locked,     \* the Mutex<Store> is held
  poisoned,   \* the Mutex<Store> is poisoned
  pc,         \* position of main / View::run
  local,      \* the local `count` of View::run
  action,     \* the Option<Action> returned by handle_user_input
  queue,      \* events pending in the input source
  screen,     \* text on the rendering surface
  result,     \* outcome of main: running, ok, err (Err returned), panic
  threads,    \* concurrent callers of Dispatcher::dispatch
  reader,     \* a concurrent reader taking the lock as View::run does
  hist,       \* history of the whole run
  iter,       \* history of the current iteration of the loop
  prevIter    \* history of the previous iteration of the loop

vars == <<count, locked, poisoned, pc, local, action, queue, screen, result,
          threads, reader, hist, iter, prevIter>>

(* ---------- Action, Store ---------- *)
Action == {"Increment", "Decrement"}

\* update with both arms adding 1
update_bothAdd(c, a) ==
  IF c = I32Max
    THEN {[count |-> I32Min, panic |-> FALSE], [count |-> c, panic |-> TRUE]}
    ELSE {[count |-> c + 1, panic |-> FALSE]}

\* Store::update. The counter is an i32: at the limits of the type the
\* addition overflows, which panics in a build with overflow checks and
\* wraps around in a build without them.
update(c, a) ==
  IF a = "Increment"
    THEN IF c = I32Max
           THEN {[count |-> I32Min, panic |-> FALSE], [count |-> c, panic |-> TRUE]}
           ELSE {[count |-> c + 1, panic |-> FALSE]}
    ELSE IF c = I32Min
           THEN {[count |-> I32Max, panic |-> FALSE], [count |-> c, panic |-> TRUE]}
           ELSE {[count |-> c - 1, panic |-> FALSE]}

(* ---------- rendering ---------- *)
Digit == <<"0", "1", "2", "3", "4", "5", "6", "7", "8", "9">>

RECURSIVE Decimal(_)
\* decimal digits of n >= 0, most significant first, no leading zero
Decimal(n) ==
  IF n < 10 THEN <<Digit[n + 1]>>
  ELSE Decimal(n \div 10) \o <<Digit[(n % 10) + 1]>>

\* Display that formats the magnitude only
fmt_i32_nosign(n) ==
  IF n >= 0 THEN Decimal(n)
  ELSE LET d == (10 - (n % 10)) % 10
           q == -((n + d) \div 10)
       IN (IF q = 0 THEN <<>> ELSE Decimal(q)) \o <<Digit[d + 1]>>

\* Display of an i32 as used by format!("{}", count)
fmt_i32(n) ==
  IF n >= 0 THEN Decimal(n)
  ELSE LET d == (10 - (n % 10)) % 10
           q == -((n + d) \div 10)
       IN <<"-">> \o (IF q = 0 THEN <<>> ELSE Decimal(q)) \o <<Digit[d + 1]>>

\* format!("Counter: {}", count)
count_text(c) == <<"C", "o", "u", "n", "t", "e", "r", ":", " ">> \o fmt_i32(c)

(* ---------- input ---------- *)
\* Events of the input source: four key codes and one event that is not a key
KeyCodes == {"Up", "Down", "q", "Other"}
Events == KeyCodes \cup {"Resize"}

\* handle_user_input whose timeout branch yields a request
handle_user_input_timeoutInc(polled, ev) ==
  IF ~polled THEN "Increment"
  ELSE IF ev \in KeyCodes
    THEN CASE ev = "Up" -> "Increment"
           [] ev = "Down" -> "Decrement"
           [] ev = "q" -> "None"
           [] OTHER -> "None"
    ELSE "None"

\* the match of handle_user_input; polled = FALSE is the poll timing out
handle_user_input(polled, ev) ==
  IF ~polled THEN "None"
  ELSE IF ev \in KeyCodes
    THEN CASE ev = "Up" -> "Increment"
           [] ev = "Down" -> "Decrement"
           [] ev = "q" -> "None"
           [] OTHER -> "None"
    ELSE "None"

\* the quit test taking any key for the quit key
is_quit_anyKey(polled, ev) == polled /\ ev \in KeyCodes

\* the quit test taking a poll that timed out for the quit key
is_quit_onTimeout(polled, ev) == ~polled \/ (ev \in KeyCodes /\ ev = "q")

\* the test of the quit poll in run
is_quit(polled, ev) == polled /\ ev \in KeyCodes /\ ev = "q"

(* ---------- initial state ---------- *)
NoIter == [obs1 |-> "none", obs2 |-> "none", count0 |-> 0, disp |-> 0,
           text |-> <<>>, drawn |-> FALSE, steps |-> <<>>, act |-> "None",
           polls |-> 0, reads |-> 0]

NoHist == [start |-> 0, ups |-> 0, downs |-> 0, incs |-> 0, decs |-> 0,
           arrived |-> 0, qRead |-> FALSE, ioFail |-> "none", clears |-> 0,
           renders |-> 0, lastAct |-> "None", before |-> 0, exit |-> "none",
           clearTried |-> FALSE]

NoReader == [pc |-> "off", seen |-> 0, sum |-> 0, reads |-> 0]

\* main: the terminal is cleared, Store::new() gives count 0, run starts
Init ==
  /\ count = 0
  /\ locked = FALSE
  /\ poisoned = FALSE
  /\ pc = "lock_read"
  /\ local = 0
  /\ action = "None"
  /\ queue = <<>>
  /\ screen = <<>>
  /\ result = "running"
  /\ threads = <<>>
  /\ reader = NoReader
  /\ hist = NoHist
  /\ iter = NoIter
  /\ prevIter = NoIter

(* ---------- the input source ---------- *)
\* a key press or other event arrives at the input source
KeyPress(e) ==
  /\ result = "running"
  /\ pc \in {"lock_read", "copy", "draw", "poll1", "dispatch_lock",
             "dispatch_update", "poll2"}
  /\ hist.arrived < MaxEvents
  /\ queue' = Append(queue, e)
  /\ hist' = [hist EXCEPT !.arrived = @ + 1]
  /\ UNCHANGED <<count, locked, poisoned, pc, local, action, screen, result,
                 threads, reader, iter, prevIter>>

(* ---------- View::run ---------- *)
\* run: self.dispatcher.store.lock().unwrap()
LockRead ==
  /\ pc = "lock_read"
  /\ ~locked
  /\ IF poisoned
       THEN /\ result' = "panic"
            /\ pc' = "done"
            /\ UNCHANGED locked
       ELSE /\ locked' = TRUE
            /\ pc' = "copy"
            /\ UNCHANGED result
  /\ prevIter' = iter
  /\ iter' = [NoIter EXCEPT !.count0 = count]
  /\ hist' = IF poisoned THEN [hist EXCEPT !.exit = "poison"] ELSE hist
  /\ UNCHANGED <<count, poisoned, local, action, queue, screen, threads,
                 reader>>

\* the copy written as a take, which leaves 0 in the Store
CopyCount_take ==
  /\ pc = "copy"
  /\ local' = count
  /\ count' = 0
  /\ locked' = FALSE
  /\ pc' = "draw"
  /\ iter' = [iter EXCEPT !.steps = Append(@, "read")]
  /\ UNCHANGED <<poisoned, action, queue, screen, result, threads, reader,
                 hist, prevIter>>

\* the copy going on to the polls without the render
CopyCount_noDraw ==
  /\ pc = "copy"
  /\ local' = count
  /\ locked' = FALSE
  /\ pc' = "poll1"
  /\ iter' = [iter EXCEPT !.steps = Append(@, "read")]
  /\ UNCHANGED <<count, poisoned, action, queue, screen, result, threads,
                 reader, hist, prevIter>>

\* the copy with the guard kept alive past the block
CopyCount_keepGuard ==
  /\ pc = "copy"
  /\ local' = count
  /\ pc' = "draw"
  /\ iter' = [iter EXCEPT !.steps = Append(@, "read")]
  /\ UNCHANGED <<count, locked, poisoned, action, queue, screen, result,
                 threads, reader, hist, prevIter>>

\* run: store.count is copied and the guard is dropped
CopyCount ==
  /\ pc = "copy"
  /\ local' = count
  /\ locked' = FALSE
  /\ pc' = "draw"
  /\ iter' = [iter EXCEPT !.steps = Append(@, "read")]
  /\ UNCHANGED <<count, poisoned, action, queue, screen, result, threads,
                 reader, hist, prevIter>>

\* draw_ui whose error is dropped instead of returned
DrawUi_ignoreErr ==
  /\ pc = "draw"
  /\ \E ok \in BOOLEAN :
       IF ok
         THEN /\ screen' = count_text(local)
              /\ iter' = [iter EXCEPT !.text = count_text(local), !.drawn = TRUE,
                                       !.steps = Append(@, "render")]
              /\ hist' = [hist EXCEPT !.renders = IF @ < 2 THEN @ + 1 ELSE @]
         ELSE /\ hist' = [hist EXCEPT !.exit = "draw"]
              /\ UNCHANGED <<screen, iter>>
  /\ pc' = "poll1"
  /\ UNCHANGED <<count, locked, poisoned, local, action, queue, threads,
                 reader, prevIter, result>>

\* run: self.draw_ui(count)?
DrawUi ==
  /\ pc = "draw"
  /\ \E ok \in BOOLEAN :
       IF ok
         THEN /\ screen' = count_text(local)
              /\ pc' = "poll1"
              /\ iter' = [iter EXCEPT !.text = count_text(local), !.drawn = TRUE,
                                       !.steps = Append(@, "render")]
              /\ hist' = [hist EXCEPT !.renders = IF @ < 2 THEN @ + 1 ELSE @]
              /\ UNCHANGED result
         ELSE /\ result' = "err"
              /\ pc' = "done"
              /\ hist' = [hist EXCEPT !.exit = "draw"]
              /\ UNCHANGED <<screen, iter>>
  /\ UNCHANGED <<count, locked, poisoned, local, action, queue, threads,
                 reader, prevIter>>

\* history of one event read from the input source
Consumed(h, ev) ==
  [h EXCEPT !.ups = IF ev = "Up" THEN @ + 1 ELSE @,
            !.downs = IF ev = "Down" THEN @ + 1 ELSE @,
            !.qRead = @ \/ ev = "q"]

\* run: self.handle_user_input(); poll and read are unwrapped
HandleUserInput ==
  /\ pc = "poll1"
  /\ \/ \E f \in {"poll", "read"} :
          /\ f = "read" => queue # <<>>
          /\ result' = "panic"
          /\ pc' = "done"
          /\ hist' = [hist EXCEPT !.ioFail = "poll1", !.exit = "input"]
          /\ iter' = [iter EXCEPT !.obs1 = "error", !.polls = @ + 1,
                                   !.steps = Append(@, "poll1")]
          /\ UNCHANGED <<action, queue>>
     \/ /\ queue = <<>>
        /\ action' = handle_user_input(FALSE, "Resize")
        /\ pc' = IF action' = "None" THEN "poll2" ELSE "dispatch_lock"
        /\ iter' = [iter EXCEPT !.obs1 = "timeout", !.polls = @ + 1,
                                 !.steps = Append(@, "poll1"), !.act = action']
        /\ UNCHANGED <<queue, result, hist>>
     \/ /\ queue # <<>>
        /\ action' = handle_user_input(TRUE, Head(queue))
        /\ queue' = Tail(queue)
        /\ pc' = IF action' = "None" THEN "poll2" ELSE "dispatch_lock"
        /\ iter' = [iter EXCEPT !.obs1 = Head(queue), !.polls = @ + 1,
                                 !.reads = @ + 1,
                                 !.steps = Append(@, "poll1"), !.act = action']
        /\ hist' = Consumed(hist, Head(queue))
        /\ UNCHANGED result
  /\ UNCHANGED <<count, locked, poisoned, local, screen, threads, reader,
                 prevIter>>

\* dispatch taking the guard out of a poisoned lock and going on
DispatchLock_recover ==
  /\ pc = "dispatch_lock"
  /\ ~locked
  /\ locked' = TRUE
  /\ pc' = "dispatch_update"
  /\ UNCHANGED <<count, poisoned, local, action, queue, screen, result,
                 threads, reader, hist, iter, prevIter>>

\* dispatch: self.store.lock().unwrap()
DispatchLock ==
  /\ pc = "dispatch_lock"
  /\ ~locked
  /\ IF poisoned
       THEN /\ result' = "panic"
            /\ pc' = "done"
            /\ UNCHANGED locked
       ELSE /\ locked' = TRUE
            /\ pc' = "dispatch_update"
            /\ UNCHANGED result
  /\ hist' = IF poisoned THEN [hist EXCEPT !.exit = "poison"] ELSE hist
  /\ UNCHANGED <<count, poisoned, local, action, queue, screen, threads,
                 reader, iter, prevIter>>

\* history of one request applied to the Store
Applied(h, a, c) ==
  [h EXCEPT !.incs = IF a = "Increment" THEN @ + 1 ELSE @,
            !.decs = IF a = "Decrement" THEN @ + 1 ELSE @,
            !.lastAct = a,
            !.before = c]

\* dispatch: store.update(action), then the guard is dropped
DispatchUpdate ==
  /\ pc = "dispatch_update"
  /\ \E r \in update(count, action) :
       /\ count' = r.count
       /\ locked' = FALSE
       /\ IF r.panic
            THEN /\ poisoned' = TRUE
                 /\ result' = "panic"
                 /\ pc' = "done"
                 /\ hist' = [hist EXCEPT !.exit = "overflow"]
                 /\ UNCHANGED iter
            ELSE /\ pc' = "poll2"
                 /\ hist' = Applied(hist, action, count)
                 /\ iter' = [iter EXCEPT !.disp = @ + 1,
                                          !.steps = Append(@, "dispatch")]
                 /\ UNCHANGED <<poisoned, result>>
  /\ UNCHANGED <<local, action, queue, screen, threads, reader, prevIter>>

\* the quit poll reading every pending event
QuitPoll_drain ==
  /\ pc = "poll2"
  /\ \/ \E f \in {"poll", "read"} :
          /\ f = "read" => queue # <<>>
          /\ result' = "err"
          /\ pc' = "done"
          /\ hist' = [hist EXCEPT !.ioFail = "poll2", !.exit = "input"]
          /\ iter' = [iter EXCEPT !.obs2 = "error", !.polls = @ + 1,
                                   !.steps = Append(@, "poll2")]
          /\ UNCHANGED queue
     \/ /\ queue = <<>>
        /\ pc' = IF is_quit(FALSE, "Resize") THEN "clear" ELSE "lock_read"
        /\ iter' = [iter EXCEPT !.obs2 = "timeout", !.polls = @ + 1,
                                 !.steps = Append(@, "poll2")]
        /\ hist' = IF pc' = "clear" THEN [hist EXCEPT !.exit = "quit"] ELSE hist
        /\ UNCHANGED <<queue, result>>
     \/ /\ queue # <<>>
        /\ pc' = IF \E i \in 1..Len(queue) : is_quit(TRUE, queue[i])
                   THEN "clear" ELSE "lock_read"
        /\ queue' = <<>>
        /\ iter' = [iter EXCEPT !.obs2 = Head(queue), !.polls = @ + 1,
                                 !.reads = @ + 1,
                                 !.steps = Append(@, "poll2")]
        /\ hist' = IF pc' = "clear"
                     THEN [Consumed(hist, Head(queue)) EXCEPT !.exit = "quit"]
                     ELSE Consumed(hist, Head(queue))
        /\ UNCHANGED result
  /\ UNCHANGED <<count, locked, poisoned, local, action, screen, threads,
                 reader, prevIter>>

\* run: the quit poll; poll and read are propagated with `?`
QuitPoll ==
  /\ pc = "poll2"
  /\ \/ \E f \in {"poll", "read"} :
          /\ f = "read" => queue # <<>>
          /\ result' = "err"
          /\ pc' = "done"
          /\ hist' = [hist EXCEPT !.ioFail = "poll2", !.exit = "input"]
          /\ iter' = [iter EXCEPT !.obs2 = "error", !.polls = @ + 1,
                                   !.steps = Append(@, "poll2")]
          /\ UNCHANGED queue
     \/ /\ queue = <<>>
        /\ pc' = IF is_quit(FALSE, "Resize") THEN "clear" ELSE "lock_read"
        /\ iter' = [iter EXCEPT !.obs2 = "timeout", !.polls = @ + 1,
                                 !.steps = Append(@, "poll2")]
        /\ hist' = IF pc' = "clear" THEN [hist EXCEPT !.exit = "quit"] ELSE hist
        /\ UNCHANGED <<queue, result>>
     \/ /\ queue # <<>>
        /\ pc' = IF is_quit(TRUE, Head(queue)) THEN "clear" ELSE "lock_read"
        /\ queue' = Tail(queue)
        /\ iter' = [iter EXCEPT !.obs2 = Head(queue), !.polls = @ + 1,
                                 !.reads = @ + 1,
                                 !.steps = Append(@, "poll2")]
        /\ hist' = IF pc' = "clear"
                     THEN [Consumed(hist, Head(queue)) EXCEPT !.exit = "quit"]
                     ELSE Consumed(hist, Head(queue))
        /\ UNCHANGED result
  /\ UNCHANGED <<count, locked, poisoned, local, action, screen, threads,
                 reader, prevIter>>

\* run: self.terminal.clear()?; Ok(()) and main returning it
Clear ==
  /\ pc = "clear"
  /\ \E ok \in BOOLEAN :
       IF ok
         THEN /\ screen' = <<>>
              /\ result' = "ok"
              /\ hist' = [hist EXCEPT !.clears = @ + 1, !.clearTried = TRUE]
         ELSE /\ result' = "err"
              /\ hist' = [hist EXCEPT !.clearTried = TRUE]
              /\ UNCHANGED screen
  /\ pc' = "done"
  /\ UNCHANGED <<count, locked, poisoned, local, action, queue, threads,
                 reader, iter, prevIter>>

Next ==
  \/ \E e \in Events : KeyPress(e)
  \/ LockRead
  \/ CopyCount
  \/ DrawUi
  \/ HandleUserInput
  \/ DispatchLock
  \/ DispatchUpdate
  \/ QuitPoll
  \/ Clear

Spec == Init /\ [][Next]_vars

(* ---------- Store and Dispatcher driven directly ---------- *)
\* counter values a Store is taken at: a fresh Store (0), values next to 0,
\* and the values at the limits of the i32
StartCounts == {0, 1, -1, I32Max - 1, I32Max, I32Min + 1, I32Min}

InitStore ==
  /\ count \in StartCounts
  /\ locked = FALSE
  /\ poisoned = FALSE
  /\ pc = "store"
  /\ local = 0
  /\ action = "None"
  /\ queue = <<>>
  /\ screen = <<>>
  /\ result = "running"
  /\ threads = <<>>
  /\ reader = NoReader
  /\ hist = [NoHist EXCEPT !.start = count]
  /\ iter = NoIter
  /\ prevIter = NoIter

\* Dispatcher::dispatch called by a single caller: lock, update, drop
StoreDispatch(a) ==
  /\ pc = "store"
  /\ result = "running"
  /\ ~locked
  /\ hist.incs + hist.decs < MaxReq
  /\ IF poisoned
       THEN /\ result' = "panic"
            /\ UNCHANGED <<count, poisoned, hist>>
       ELSE \E r \in update(count, a) :
              /\ count' = r.count
              /\ poisoned' = r.panic
              /\ result' = IF r.panic THEN "panic" ELSE "running"
              /\ hist' = IF r.panic
                           THEN [hist EXCEPT !.lastAct = a, !.before = count]
                           ELSE Applied(hist, a, count)
  /\ UNCHANGED <<locked, pc, local, action, queue, screen, threads, reader,
                 iter, prevIter>>

NextStore == \E a \in Action : StoreDispatch(a)

SpecStore == InitStore /\ [][NextStore]_vars

(* ---------- concurrent callers of dispatch ---------- *)
Threads == 1..NumThreads

ConcStarts == {0, 5, -3}

InitConc ==
  /\ count \in ConcStarts
  /\ locked = FALSE
  /\ poisoned = FALSE
  /\ pc = "conc"
  /\ local = 0
  /\ action = "None"
  /\ queue = <<>>
  /\ screen = <<>>
  /\ result = "running"
  /\ threads \in [Threads -> {[pc |-> "start", act |-> a, tmp |-> 0] : a \in Action}]
  /\ reader = [NoReader EXCEPT !.pc = "idle"]
  /\ hist = [NoHist EXCEPT !.start = count]
  /\ iter = NoIter
  /\ prevIter = NoIter

\* dispatch entering the critical section without waiting for the mutex
ThreadLock_nowait(t) ==
  /\ result = "running"
  /\ threads[t].pc = "start"
  /\ threads' = [threads EXCEPT ![t].pc = "locked"]
  /\ locked' = TRUE
  /\ UNCHANGED <<count, poisoned, pc, local, action, queue, screen, result,
                 reader, hist, iter, prevIter>>

\* dispatch: self.store.lock().unwrap() blocks while the mutex is held
ThreadLock(t) ==
  /\ result = "running"
  /\ threads[t].pc = "start"
  /\ ~locked
  /\ IF poisoned
       THEN /\ threads' = [threads EXCEPT ![t].pc = "panicked"]
            /\ UNCHANGED locked
       ELSE /\ threads' = [threads EXCEPT ![t].pc = "locked"]
            /\ locked' = TRUE
  /\ UNCHANGED <<count, poisoned, pc, local, action, queue, screen, result,
                 reader, hist, iter, prevIter>>

\* update: the read of self.count in `self.count += 1` / `-= 1`
ThreadLoad(t) ==
  /\ result = "running"
  /\ threads[t].pc = "locked"
  /\ threads' = [threads EXCEPT ![t].pc = "loaded", ![t].tmp = count]
  /\ UNCHANGED <<count, locked, poisoned, pc, local, action, queue, screen,
                 result, reader, hist, iter, prevIter>>

\* update: the write of self.count in `self.count += 1` / `-= 1`
ThreadStore(t) ==
  /\ result = "running"
  /\ threads[t].pc = "loaded"
  /\ \E r \in update(threads[t].tmp, threads[t].act) :
       IF r.panic
         THEN /\ poisoned' = TRUE
              /\ locked' = FALSE
              /\ threads' = [threads EXCEPT ![t].pc = "panicked"]
              /\ UNCHANGED count
         ELSE /\ count' = r.count
              /\ threads' = [threads EXCEPT ![t].pc = "stored"]
              /\ UNCHANGED <<poisoned, locked>>
  /\ UNCHANGED <<pc, local, action, queue, screen, result, reader, hist, iter,
                 prevIter>>

\* dispatch: the guard is dropped and dispatch returns
ThreadUnlock(t) ==
  /\ result = "running"
  /\ threads[t].pc = "stored"
  /\ locked' = FALSE
  /\ threads' = [threads EXCEPT ![t].pc = "done"]
  /\ hist' = Applied(hist, threads[t].act, threads[t].tmp)
  /\ UNCHANGED <<count, poisoned, pc, local, action, queue, screen, result,
                 reader, iter, prevIter>>

\* signed unit delta of a request
Delta(a) == IF a = "Increment" THEN 1 ELSE -1

RECURSIVE SumDeltas(_)
\* sum of the deltas of the dispatch calls of the threads in S
SumDeltas(S) ==
  IF S = {} THEN 0
  ELSE LET t == CHOOSE x \in S : TRUE
       IN Delta(threads[t].act) + SumDeltas(S \ {t})

Completed == {t \in Threads : threads[t].pc = "done"}

\* a reader doing as run does: self.dispatcher.store.lock().unwrap()
ReaderLock ==
  /\ pc = "conc"
  /\ reader.pc = "idle"
  /\ ~locked
  /\ ~poisoned
  /\ locked' = TRUE
  /\ reader' = [reader EXCEPT !.pc = "locked"]
  /\ UNCHANGED <<count, poisoned, pc, local, action, queue, screen, result,
                 threads, hist, iter, prevIter>>

\* the reader copies store.count and drops the guard
ReaderCopy ==
  /\ pc = "conc"
  /\ reader.pc = "locked"
  /\ locked' = FALSE
  /\ reader' = [pc |-> "idle", seen |-> count, sum |-> SumDeltas(Completed),
                reads |-> 1]
  /\ UNCHANGED <<count, poisoned, pc, local, action, queue, screen, result,
                 threads, hist, iter, prevIter>>

NextConc ==
  \/ \E t \in Threads : ThreadLock(t)
  \/ \E t \in Threads : ThreadLoad(t)
  \/ \E t \in Threads : ThreadStore(t)
  \/ \E t \in Threads : ThreadUnlock(t)
  \/ ReaderLock
  \/ ReaderCopy

SpecConc == InitConc /\ [][NextConc]_vars

(* ---------- the loop with a second holder of the Store ---------- *)
\* one more caller of Dispatcher::dispatch on a clone of the Arc
Tickers == {1}

\* the loop at a counter value where a concurrent update can overflow
PoisonStarts == {I32Max}

InitPoison ==
  /\ count \in PoisonStarts
  /\ locked = FALSE
  /\ poisoned = FALSE
  /\ pc = "lock_read"
  /\ local = 0
  /\ action = "None"
  /\ queue = <<>>
  /\ screen = <<>>
  /\ result = "running"
  /\ threads = [t \in Tickers |-> [pc |-> "start", act |-> "Increment", tmp |-> 0]]
  /\ reader = NoReader
  /\ hist = [NoHist EXCEPT !.start = count]
  /\ iter = NoIter
  /\ prevIter = NoIter

NextPoison ==
  \/ Next
  \/ \E t \in Tickers : ThreadLock(t)
  \/ \E t \in Tickers : ThreadLoad(t)
  \/ \E t \in Tickers : ThreadStore(t)
  \/ \E t \in Tickers : ThreadUnlock(t)

SpecPoison == InitPoison /\ [][NextPoison]_vars

(* ---------- helpers of the properties ---------- *)
\* b is the integer after a
IsSucc(a, b) == a < b /\ b - a = 1

Prefix == <<"C", "o", "u", "n", "t", "e", "r", ":", " ">>

DigitVal(ch) == CHOOSE i \in 0..9 : Digit[i + 1] = ch

RECURSIVE ParseDigits(_)
ParseDigits(s) ==
  IF Len(s) = 0 THEN 0
  ELSE ParseDigits(SubSeq(s, 1, Len(s) - 1)) * 10 + DigitVal(s[Len(s)])

\* reads the number back from a rendered text `Counter: V`
ParseCounter(t) ==
  LET body == SubSeq(t, Len(Prefix) + 1, Len(t))
  IN IF body[1] = "-" THEN -ParseDigits(Tail(body)) ELSE ParseDigits(body)

\* no request is between handle_user_input and the end of dispatch
NoRequestInFlight == pc \notin {"dispatch_lock", "dispatch_update"}

\* the observation of a poll that saw no key event
NoKey(obs) == obs \in {"timeout", "Resize"}

(* ---------- C1 ---------- *)
\* C1: every Up read from the input source, at either poll, is dispatched as
\* exactly one Increment and every Down as exactly one Decrement, so the
\* counter equals the Up events read minus the Down events read.
C1_EveryKeyDispatched ==
  (NoRequestInFlight /\ result # "panic") =>
     /\ hist.incs = hist.ups
     /\ hist.decs = hist.downs
     /\ count = hist.ups - hist.downs

(* ---------- C2 ---------- *)
\* C2: once a `q` key event has been read, at either poll, the loop does not
\* start another iteration: it is at most finishing the current iteration,
\* clearing the screen, or done.
C2_QuitAlwaysTerminates ==
  hist.qRead => pc \in {"poll2", "clear", "done"}

(* ---------- C5 ---------- *)
\* C5: an I/O failure of the input source at either poll ends the loop at
\* once and is returned as the error result of run and main.
C5_InputFailurePropagates ==
  hist.ioFail # "none" => (pc = "done" /\ result = "err")

(* ---------- C6 ---------- *)
\* C6: once `q` has been observed the loop is Terminating; it ends with the
\* screen cleared exactly once and run returning success.
C6_QuitClearsAndSucceeds ==
  hist.qRead =>
     /\ pc \in {"clear", "done"}
     /\ pc = "done" => (result = "ok" /\ hist.clears = 1 /\ screen = <<>>)

(* ---------- C7 ---------- *)
\* C7: right after draw_ui the screen shows `Counter: V` for the value V the
\* Store holds at that moment, the first render shows `Counter: 0`, and two
\* renders of equal counter values show equal text.
C7_RenderShowsCounter ==
  pc = "poll1" =>
     /\ SubSeq(screen, 1, Len(Prefix)) = Prefix
     /\ ParseCounter(screen) = count
     /\ fmt_i32(count) = SubSeq(screen, Len(Prefix) + 1, Len(screen))
     /\ hist.renders = 1 => screen = Prefix \o <<"0">>
     /\ (prevIter.drawn /\ prevIter.count0 = count) => screen = prevIter.text

C7_Witness ==
  /\ pc = "poll1"
  /\ count = -2
  /\ screen = Prefix \o <<"-", "2">>
  /\ prevIter.drawn

(* ---------- C8 ---------- *)
\* C8: an iteration whose two polls both saw no key event dispatches nothing,
\* leaves the counter unchanged and the loop running, and the render of the
\* next iteration shows the same text as the render of that iteration.
C8_IdleIteration ==
  /\ (pc = "lock_read" /\ NoKey(iter.obs1) /\ NoKey(iter.obs2)) =>
        (iter.disp = 0 /\ count = iter.count0 /\ result = "running")
  /\ (pc = "poll1" /\ NoKey(prevIter.obs1) /\ NoKey(prevIter.obs2)) =>
        (screen = prevIter.text /\ count = prevIter.count0)

C8_Witness ==
  /\ pc = "poll1"
  /\ prevIter.obs1 = "timeout"
  /\ prevIter.obs2 = "timeout"
  /\ prevIter.drawn
  /\ count = 1
  /\ screen = Prefix \o <<"1">>

(* ---------- C9 ---------- *)
\* C9: the counter starts at 0 and changes only in the update step of
\* Dispatcher::dispatch, each time by exactly +1 or -1 for one request.
C9_OnlyDispatchMutates ==
  /\ count = 0
  /\ [][count' # count =>
          /\ pc = "dispatch_update"
          /\ hist'.incs + hist'.decs = hist.incs + hist.decs + 1
          /\ \/ action = "Increment" /\ IsSucc(count, count')
             \/ action = "Decrement" /\ IsSucc(count', count)]_vars

C9_Witness ==
  /\ pc = "done"
  /\ hist.clears = 1
  /\ hist.incs = 1
  /\ hist.decs = 1

(* ---------- C3 ---------- *)
\* C3: on a fresh Store (count 0), after any sequence of requests applied
\* through Dispatcher::dispatch the counter equals the number of Increments
\* minus the number of Decrements (3 Increments then 5 Decrements give -2).
C3_CountIsIncsMinusDecs ==
  (pc = "store" /\ hist.start = 0) =>
     (result = "running" /\ count = hist.incs - hist.decs)

C3_Witness ==
  /\ pc = "store"
  /\ hist.start = 0
  /\ hist.incs = 3
  /\ hist.decs = 5
  /\ hist.lastAct = "Decrement"
  /\ count = -2

(* ---------- C4 ---------- *)
\* C4: with concurrent callers of dispatch no update is lost: once every
\* call has returned the counter is the initial value plus the sum of all
\* deltas, and a reader holding the lock sees the initial value plus the
\* deltas of some set of completed dispatch calls.
C4_NoLostUpdate ==
  pc = "conc" =>
     /\ Completed = Threads => count = hist.start + SumDeltas(Threads)
     /\ reader.reads > 0 =>
          \E S \in SUBSET Completed : reader.seen = hist.start + SumDeltas(S)
     /\ reader.reads > 0 => reader.seen = hist.start + reader.sum

C4_Witness ==
  /\ pc = "conc"
  /\ Completed = Threads
  /\ reader.reads > 0
  /\ reader.seen # hist.start
  /\ reader.seen # count
  /\ count = hist.start + 1

(* ---------- C10 ---------- *)
\* C10: for every counter value, the limits of the i32 included, Increment
\* yields the value plus 1 and Decrement the value minus 1, and the program
\* goes on.
C10_StepAtEveryValue ==
  pc = "store" =>
     /\ result = "running"
     /\ hist.lastAct = "Increment" => IsSucc(hist.before, count)
     /\ hist.lastAct = "Decrement" => IsSucc(count, hist.before)

(* ---------- helpers of the loop properties ---------- *)
StepsWithDispatch == <<"read", "render", "poll1", "dispatch", "poll2">>
StepsNoDispatch == <<"read", "render", "poll1", "poll2">>

IsPrefix(s, t) == Len(s) <= Len(t) /\ SubSeq(t, 1, Len(s)) = s

Dist(a, b) == IF a >= b THEN a - b ELSE b - a

(* ---------- C13 ---------- *)
\* C13: the steps of an iteration happen in the order read, render, action
\* poll, dispatch (if a request was produced), quit poll; no event is read
\* before the render of the iteration, a produced request is dispatched before
\* the quit poll, and the next render shows the counter including it.
C13_IterationOrder ==
  /\ IsPrefix(iter.steps, StepsWithDispatch) \/ IsPrefix(iter.steps, StepsNoDispatch)
  /\ iter.polls > 0 => iter.drawn
  /\ (pc = "poll2" /\ iter.act # "None") => iter.disp = 1
  /\ iter.disp = 1 => iter.act # "None"
  /\ (pc = "poll1" /\ prevIter.disp = 1) =>
        ParseCounter(screen) = prevIter.count0 + Delta(prevIter.act)

C13_Witness ==
  /\ pc = "poll1"
  /\ prevIter.steps = StepsWithDispatch
  /\ prevIter.act = "Decrement"
  /\ prevIter.text = Prefix \o <<"0">>
  /\ screen = Prefix \o <<"-", "1">>

(* ---------- C14 ---------- *)
\* C14: the mutex is held exactly between the lock and the copy of run and
\* between the lock and the update of dispatch; it is free while the loop
\* renders and polls, and free whenever the loop is about to acquire it.
C14_LockDiscipline ==
  /\ locked <=> pc \in {"copy", "dispatch_update"}
  /\ pc \in {"lock_read", "dispatch_lock", "draw", "poll1", "poll2", "clear"} => ~locked

C14_Witness ==
  /\ pc = "dispatch_update"
  /\ locked
  /\ iter.steps = <<"read", "render", "poll1">>
  /\ hist.renders = 2

(* ---------- C15 ---------- *)
\* C15: the loop goes to the final clear, and run returns Ok, only in an
\* iteration whose quit poll read a `q` key event.
C15_NoSpuriousExit ==
  /\ []((pc = "clear" \/ hist.clearTried \/ result = "ok") =>
          (iter.obs2 = "q" /\ hist.qRead))
  /\ [][(pc # "clear" /\ pc' = "clear") =>
          (pc = "poll2" /\ queue # <<>> /\ Head(queue) = "q")]_vars

C15_Witness ==
  /\ pc = "done"
  /\ result = "ok"
  /\ iter.obs1 = "Up"
  /\ iter.obs2 = "q"
  /\ prevIter.obs2 = "Other"

(* ---------- C16 ---------- *)
\* C16: an iteration performs two polls, each poll reads at most one event
\* and that event is the head of the queue, at most one request is
\* dispatched, and two consecutive renders differ by at most 1.
C16_TwoPollsPerIteration ==
  /\ [](/\ iter.polls <= 2
        /\ iter.reads <= iter.polls
        /\ iter.disp <= 1
        /\ iter.obs2 # "none" => iter.polls = 2
        /\ (pc = "poll1" /\ prevIter.drawn) =>
              Dist(ParseCounter(screen), ParseCounter(prevIter.text)) <= 1)
  /\ [][Len(queue') < Len(queue) =>
          /\ pc \in {"poll1", "poll2"}
          /\ queue' = Tail(queue)
          /\ iter'.reads = iter.reads + 1
          /\ iter'.polls = iter.polls + 1]_vars

C16_Witness ==
  /\ pc = "poll1"
  /\ prevIter.polls = 2
  /\ prevIter.reads = 2
  /\ prevIter.disp = 1
  /\ prevIter.drawn
  /\ screen # prevIter.text
  /\ queue # <<>>

(* ---------- C17 ---------- *)
\* C17: when draw_ui fails run returns the error at once: no poll and no
\* dispatch of that iteration has happened, no clear is attempted and the
\* counter is the value read for that render.
C17_DrawFailureFatal ==
  hist.exit = "draw" =>
     /\ pc = "done"
     /\ result = "err"
     /\ iter.polls = 0
     /\ iter.reads = 0
     /\ iter.disp = 0
     /\ iter.steps = <<"read">>
     /\ count = local
     /\ count = iter.count0
     /\ ~locked
     /\ ~hist.clearTried

C17_Witness ==
  /\ hist.exit = "draw"
  /\ pc = "done"
  /\ count = 1
  /\ hist.renders = 2
  /\ queue # <<>>

(* ---------- C11 ---------- *)
\* C11: the final clear of run is executed exactly when the loop was left
\* because the quit poll read `q`; after a render failure, an input failure
\* or a poisoned lock the run ends without the clear and with a failure.
C11_ClearOnSuccessPathOnly ==
  /\ hist.clearTried => (pc = "done" /\ hist.exit = "quit" /\ iter.obs2 = "q")
  /\ (pc = "done" /\ hist.exit = "quit") => hist.clearTried
  /\ result = "ok" => (hist.clearTried /\ screen = <<>>)
  /\ hist.exit \in {"draw", "input", "poison", "overflow"} =>
        (pc = "done" /\ ~hist.clearTried /\ result \in {"err", "panic"})
  /\ pc = "done" => hist.exit # "none"

C11_Witness ==
  /\ pc = "done"
  /\ hist.clearTried
  /\ hist.exit = "quit"
  /\ result = "ok"
  /\ hist.renders = 2
  /\ screen = <<>>

(* ---------- C12 ---------- *)
\* C12: when the mutex is poisoned at the lock of dispatch or at the lock of
\* the state read of run, the step panics: no request is applied, nothing is
\* copied or rendered, and the loop does not continue.
C12_PoisonIsFatal ==
  /\ [](hist.exit = "poison" => (pc = "done" /\ result = "panic" /\ poisoned))
  /\ [][(poisoned /\ pc \in {"lock_read", "dispatch_lock"} /\ pc' # pc) =>
          /\ pc' = "done"
          /\ result' = "panic"
          /\ count' = count
          /\ local' = local
          /\ screen' = screen
          /\ locked' = locked
          /\ hist'.incs = hist.incs
          /\ hist'.decs = hist.decs
          /\ hist'.renders = hist.renders
          /\ hist'.exit = "poison"]_vars

C12_Witness ==
  /\ hist.exit = "poison"
  /\ pc = "done"
  /\ result = "panic"
  /\ iter.act = "Decrement"
  /\ iter.steps = <<"read", "render", "poll1">>
  /\ threads[1].pc = "panicked"

====
